---- MODULE Spec2Model ----
(***************************************************************************)
(* Model of f4pga/flows/flow.py: the Flow class (construction, dependency  *)
(* resolution, execution) and the Path-Set helpers p_req_exists,           *)
(* p_update_dep_statuses and p_dep_differ.                                  *)
(*                                                                         *)
(* The Python recursion of _resolve_dependencies and _build_dep is kept as *)
(* an explicit call stack; every action is one straight-line piece of the  *)
(* code between two recursive calls.  F4Cache, module_map and module_exec  *)
(* live outside flow.py: F4Cache follows the Staleness Oracle contract of  *)
(* the specification, the two module entry points are nondeterministic.    *)
(***************************************************************************)
EXTENDS Integers, Sequences, FiniteSets, TLC

VARIABLES
    cfg,            \* FlowConfig of this behaviour (stages, overrides, target)
    nocache,        \* TRUE iff f4cache is None
    fs,             \* the disk: path -> content, 0 = the file does not exist
    current_hashes, \* F4Cache: path -> hash registered by process_file (0 = none)
    hashes,         \* F4Cache: <<path, consumer>> -> recorded baseline (0 = none)
    os_map,         \* Flow.os_map: artifact -> stage name (NoStage = no entry)
    dep_paths,      \* Flow.dep_paths: artifact -> Path-Set (None = no entry)
    run_stages,     \* Flow.run_stages
    deps_rebuilds,  \* Flow.deps_rebuilds: artifact -> counter (-1 = no entry)
    stages_checked, \* the stages_checked set threaded through resolution
    stack,          \* call stack of _resolve_dependencies / _build_dep frames
    ret,            \* value returned by the call that returned last
    phase,          \* position in the life of the Flow object
    err,            \* the exception that ended construction or execute()
    run,            \* number of the Flow object (1 = first construction)
    fs0,            \* the disk when this Flow object was constructed
    fsDone,         \* the disk when the previous execute() returned
    mapLog,         \* stages whose module_map was called, in call order
    execLog,        \* stages whose module_exec was called, in call order
    retLog          \* <<fn, dep, value>> of every returned recursive call

vars == <<cfg, nocache, fs, current_hashes, hashes, os_map, dep_paths,
          run_stages, deps_rebuilds, stages_checked, stack, ret, phase, err,
          run, fs0, fsDone, mapLog, execLog, retLog>>

\* ------------------------------------------------------------------ bounds
MaxRuns == 2        \* Flow objects constructed one after the other
MaxContent == 2     \* distinct file contents 1..MaxContent

\* ------------------------------------------------------------- Path-Sets
NoStage == "none"
NoPath == <<>>
None == [t |-> "none", p |-> NoPath, l |-> <<>>]
PStr(p) == [t |-> "str", p |-> p, l |-> <<>>]
PList(l) == [t |-> "list", p |-> NoPath, l |-> l]
PDict(l) == [t |-> "dict", p |-> NoPath, l |-> l]

\* Truthy that takes a missing entry for a Path-Set
TruthyAlways(ps) == TRUE

\* Python truthiness of a dep_paths.get(...) result
Truthy(ps) == /\ ps.t # "none"
              /\ (ps.t \in {"list", "dict"} => ps.l # <<>>)

RECURSIVE Members(_)
\* every single path below a Path-Set, in order
Members(ps) ==
    IF ps.t = "str" THEN <<ps.p>>
    ELSE IF ps.l = <<>> THEN <<>>
    ELSE Members(Head(ps.l)) \o Members([ps EXCEPT !.l = Tail(ps.l)])

SeqToSet(s) == {s[k] : k \in 1..Len(s)}

\* --------------------------------------------------------- configuration
Dep(n, s) == [name |-> n, spec |-> s]
StageOf(t, p) == [takes |-> t, produces |-> p]

FlowOf(nm, ord, st, ov, tg, om, ls) ==
    [name |-> nm, order |-> ord, stages |-> st, overrides |-> ov,
     target |-> tg, omits |-> om, lists |-> ls]

ChainStages ==
    [A |-> StageOf(<<Dep("s", "req")>>, <<Dep("x", "req")>>),
     B |-> StageOf(<<Dep("x", "req")>>, <<Dep("y", "req")>>)]

ColdStages ==
    [A |-> StageOf(<<>>, <<Dep("x", "req")>>),
     B |-> StageOf(<<Dep("x", "req")>>, <<Dep("y", "req")>>)]

OptStages(zspec) ==
    [C |-> StageOf(<<>>, <<Dep("v", "req"), Dep("z", zspec)>>),
     E |-> StageOf(<<Dep("v", "req"), Dep("z", "opt")>>, <<Dep("y", "req")>>)]

UnreachStages ==
    [D |-> StageOf(<<Dep("s", "req"), Dep("w", "req")>>, <<Dep("u", "req")>>),
     B |-> StageOf(<<Dep("u", "opt"), Dep("w", "opt")>>, <<Dep("y", "req")>>)]

DupStages ==
    [A |-> StageOf(<<Dep("s", "req")>>, <<Dep("x", "req")>>),
     B |-> StageOf(<<>>, <<Dep("x", "req"), Dep("y", "req")>>)]

MultiStages ==
    [M |-> StageOf(<<>>, <<Dep("y", "req"), Dep("v", "req")>>)]

LoneStages ==
    [G |-> StageOf(<<>>, <<Dep("z", "opt")>>),
     H |-> StageOf(<<Dep("z", "opt")>>, <<Dep("y", "req")>>)]

TwiceStages ==
    [D |-> StageOf(<<Dep("s", "req"), Dep("w", "req")>>,
                   <<Dep("u", "req"), Dep("x", "req")>>),
     B |-> StageOf(<<Dep("u", "opt"), Dep("x", "opt")>>, <<Dep("y", "req")>>)]

\* The flow configurations explored.  omits: the declared outputs that the
\* stage's dry-run mapping leaves out; lists: artifacts whose Path-Set is a
\* list of two paths (all others are a single path).
Flows ==
    {FlowOf("chain", <<"A", "B">>, ChainStages, {"s"}, "y", {}, ls) :
        ls \in {{}, {"x"}, {"s"}}}
    \cup {FlowOf("cold", <<"A", "B">>, ColdStages, {}, "y", {}, {})}
    \cup {FlowOf("opt", <<"C", "E">>, OptStages(zs), ov, tg, om, {}) :
        zs \in {"opt", "demand"}, ov \in {{}, {"z"}}, tg \in {"y", "v", "z"},
        om \in {{}, {"z"}, {"v"}}}
    \cup {FlowOf("unreach", <<"D", "B">>, UnreachStages, ov, tg, {}, {}) :
        ov \in {{"s", "w"}, {"s", "w", "u"}}, tg \in {"y", "u", "w"}}
    \cup {FlowOf("dup", <<"A", "B">>, DupStages, {"s"}, "y", {}, {})}
    \cup {FlowOf("lone", <<"G", "H">>, LoneStages, {}, "y", om, {}) :
        om \in {{}, {"z"}}}
    \cup {FlowOf("multi", <<"M">>, MultiStages, {}, tg, {}, {}) :
        tg \in {"y", "v"}}
    \cup {FlowOf("twice", <<"D", "B">>, TwiceStages, {"s", "w"}, "y", {}, {})}

Artifacts == {"s", "w", "x", "y", "z", "v", "u"}
StageNames(c) == SeqToSet(c.order)
TakeNames(c, st) == {c.stages[st].takes[k].name : k \in 1..Len(c.stages[st].takes)}
ProdNames(c, st) == {c.stages[st].produces[k].name : k \in 1..Len(c.stages[st].produces)}

\* artifacts a flow mentions
Arts(c) == c.overrides \cup {c.target}
           \cup UNION {TakeNames(c, st) \cup ProdNames(c, st) : st \in StageNames(c)}

\* The one Path-Set an artifact can have in a flow: the path the user gives
\* as override and the path the module's dry-run mapping answers.
PathSetOf(c, a) ==
    IF a \in c.lists THEN PList(<<PStr(<<a, 1>>), PStr(<<a, 2>>)>>)
    ELSE PStr(<<a, 1>>)

PathsOf(c) == UNION {SeqToSet(Members(PathSetOf(c, a))) : a \in Arts(c)}
Consumers(c) == StageNames(c) \cup {"__target"}

\* ------------------------------------------------------ Path-Set helpers
RECURSIVE p_req_exists(_, _)
\* Only called on single paths and lists; the raise of the else branch is
\* p_req_raises.
p_req_exists(disk, r) ==
    IF r.t = "str" THEN disk[r.p] # 0
    ELSE \A k \in 1..Len(r.l) : p_req_exists(disk, r.l[k])

p_req_raises(r) == r.t \notin {"str", "list"}

\* ---------------------------------------------- F4Cache (Staleness Oracle)
\* register: snapshot the content of the file as its current hash
process_file(cur, disk, p) == [cur EXCEPT ![p] = disk[p]]

\* status: "same" only when a baseline is recorded for the consumer and it
\* equals the registered hash; no tracking data counts as differing
get_status(cur, hs, p, consumer) ==
    IF hs[<<p, consumer>>] # 0 /\ hs[<<p, consumer>>] = cur[p]
    THEN "same" ELSE "differs"

\* recordVersion: answers whether the registered hash differs from the
\* consumer's baseline and makes it the new baseline
update(cur, hs, disk, p, consumer) ==
    IF disk[p] = 0
    THEN [differs |-> TRUE, hashes |-> [hs EXCEPT ![<<p, consumer>>] = 0]]
    ELSE [differs |-> cur[p] # hs[<<p, consumer>>],
          hashes |-> [hs EXCEPT ![<<p, consumer>>] = cur[p]]]

RECURSIVE CacheAll(_, _, _)
CacheAll(cur, disk, ps) ==
    IF ps = <<>> THEN cur
    ELSE CacheAll(process_file(cur, disk, Head(ps)), disk, Tail(ps))

\* Flow._cache_deps: deep(process_file) over the Path-Set
_cache_deps(cur, disk, path) == CacheAll(cur, disk, Members(path))

RECURSIVE p_update_dep_statuses(_, _, _, _, _)
\* The return statement sits inside both for loops, so a list or a mapping is
\* answered by its first element alone; an empty one, or any other type,
\* reaches the call of fatal.
p_update_dep_statuses(cur, hs, disk, paths, consumer) ==
    IF paths.t = "str"
    THEN LET u == update(cur, hs, disk, paths.p, consumer)
         IN [raised |-> FALSE, differs |-> u.differs, hashes |-> u.hashes]
    ELSE IF paths.t \in {"list", "dict"} /\ paths.l # <<>>
    THEN p_update_dep_statuses(cur, hs, disk, Head(paths.l), consumer)
    ELSE [raised |-> TRUE, differs |-> FALSE, hashes |-> hs]

RECURSIVE p_dep_differ(_, _, _, _, _)
p_dep_differ(cur, hs, disk, paths, consumer) ==
    IF paths.t = "str"
    THEN IF disk[paths.p] = 0 THEN TRUE
         ELSE get_status(cur, hs, paths.p, consumer) # "same"
    ELSE IF paths.t \in {"list", "dict"}
    THEN \E k \in 1..Len(paths.l) :
            p_dep_differ(cur, hs, disk, paths.l[k], consumer)
    ELSE FALSE

\* ------------------------------------------------- Output-Provider Index
\* the (output, stage) pairs in the order the two loops of __init__ visit them
RECURSIVE OutputPairs(_, _)
OutputPairs(c, ord) ==
    IF ord = <<>> THEN <<>>
    ELSE [k \in 1..Len(c.stages[Head(ord)].produces) |->
            [out |-> c.stages[Head(ord)].produces[k].name, stage |-> Head(ord)]]
         \o OutputPairs(c, Tail(ord))

EmptyOsMap == [a \in Artifacts |-> NoStage]

\* ClaimOutput without the elif of line 61: the later stage takes the output
ClaimOutputOverwrite(m, pr) == [m EXCEPT !.map[pr.out] = pr.stage]

\* one iteration of the inner loop: claim the output, or raise
ClaimOutput(m, pr) ==
    IF m.map[pr.out] = NoStage
    THEN [m EXCEPT !.map[pr.out] = pr.stage]
    ELSE IF m.map[pr.out] # pr.stage
    THEN [m EXCEPT !.dup = TRUE]
    ELSE m

RECURSIVE BuildOsMap(_, _)
BuildOsMap(m, prs) ==
    IF prs = <<>> \/ m.dup THEN m
    ELSE BuildOsMap(ClaimOutput(m, Head(prs)), Tail(prs))

\* ------------------------------------------------------------ call stack
NoErr == [kind |-> "none", dep |-> "", stage |-> ""]
Raise(k, d, st) == [kind |-> k, dep |-> d, stage |-> st]

\* i and any are the loop position and any_dep_differ.  Two fields observe
\* the frame without being read by the code: back counts the recursive calls
\* that have returned into it, unchanged says that every take built so far was,
\* when it came back, on disk what the consumer's baseline in the cache records.
Frame(fn, dep) ==
    [fn |-> fn, dep |-> dep, pc |-> "enter", i |-> 1, any |-> FALSE, back |-> 0,
     unchanged |-> TRUE]

\* every file of the Path-Set exists with the content recorded for the consumer
AsRecorded(disk, hs, paths, consumer) ==
    \A k \in 1..Len(Members(paths)) :
        /\ disk[Members(paths)[k]] # 0
        /\ hs[<<Members(paths)[k], consumer>>] = disk[Members(paths)[k]]

Top == stack[Len(stack)]
Running(fn, pc) == /\ phase \in {"planning", "executing"}
                   /\ stack # <<>>
                   /\ Top.fn = fn
                   /\ Top.pc = pc

\* the stack after the top frame returned to its caller
Returned ==
    IF Len(stack) > 1
    THEN [SubSeq(stack, 1, Len(stack) - 1) EXCEPT ![Len(stack) - 1].back = @ + 1]
    ELSE <<>>

Return(val) ==
    /\ stack' = Returned
    /\ ret' = val
    /\ retLog' = Append(retLog, <<Top.fn, Top.dep, val>>)

Goto(pc) == stack' = [stack EXCEPT ![Len(stack)].pc = pc]

\* the provider stage of the dependency the top frame works on
Provider == os_map[Top.dep]
Takes(st) == cfg.stages[st].takes
Produces(st) == cfg.stages[st].produces

\* TakesDone with the loop ending one take early
TakesDoneEarly(f, st) == f.i >= Len(Takes(st))

\* the `for take in provider.takes` / `for p_dep in provider.takes` loop is over
TakesDone(f, st) == f.i > Len(Takes(st))

\* --------------------------------------------------------------- Init
Init ==
    /\ cfg \in Flows
    /\ nocache \in BOOLEAN
    /\ fs \in [PathsOf(cfg) -> {0, 1}]
    /\ current_hashes = [p \in PathsOf(cfg) |-> 0]
    /\ hashes = [k \in PathsOf(cfg) \X Consumers(cfg) |-> 0]
    /\ os_map = EmptyOsMap
    /\ dep_paths = [a \in Artifacts |-> None]
    /\ run_stages = {}
    /\ deps_rebuilds = [a \in Artifacts |-> -1]
    /\ stages_checked = {}
    /\ stack = <<>>
    /\ ret = "None"
    /\ phase = "new"
    /\ err = NoErr
    /\ run = 1
    /\ fs0 = fs
    /\ fsDone = fs
    /\ mapLog = <<>>
    /\ execLog = <<>>
    /\ retLog = <<>>

\* ------------------------------------------------------- Flow.__init__
\* lines 52-68: build the Output-Provider Index or raise
Construct ==
    /\ phase = "new"
    /\ LET m == BuildOsMap([dup |-> FALSE, map |-> EmptyOsMap],
                           OutputPairs(cfg, cfg.order))
       IN IF m.dup
          THEN /\ phase' = "error"
               /\ err' = Raise("DuplicateProvider", "", "")
               /\ UNCHANGED os_map
          ELSE /\ phase' = "indexed"
               /\ os_map' = m.map
               /\ UNCHANGED err
    /\ UNCHANGED <<cfg, nocache, fs, current_hashes, hashes, dep_paths,
                   run_stages, deps_rebuilds, stages_checked, stack, ret, run,
                   fs0, fsDone, mapLog, execLog, retLog>>

\* SeedPaths that leaves out the overrides of artifacts a stage produces
SeedPathsUnclaimed(c, disk) ==
    [a \in Artifacts |->
        IF a \in c.overrides /\ p_req_exists(disk, PathSetOf(c, a))
           /\ os_map[a] = NoStage
        THEN PathSetOf(c, a) ELSE None]

\* the dict comprehension of lines 70-74
SeedPaths(c, disk) ==
    [a \in Artifacts |->
        IF a \in c.overrides /\ p_req_exists(disk, PathSetOf(c, a))
        THEN PathSetOf(c, a) ELSE None]

RECURSIVE CacheEach(_, _, _)
\* _cache_deps on each of a sequence of Path-Sets
CacheEach(cur, disk, pss) ==
    IF pss = <<>> THEN cur
    ELSE CacheEach(_cache_deps(cur, disk, Head(pss)), disk, Tail(pss))

RECURSIVE SetToSeq(_)
SetToSeq(S) ==
    IF S = {} THEN <<>>
    ELSE LET x == CHOOSE x \in S : TRUE IN <<x>> \o SetToSeq(S \ {x})

\* lines 70-84: seed dep_paths with the overrides that exist, register them
\* with the cache, and call _resolve_dependencies(target, set())
Seed ==
    /\ phase = "indexed"
    /\ dep_paths' = SeedPaths(cfg, fs)
    /\ current_hashes' =
         IF nocache THEN current_hashes
         ELSE CacheEach(current_hashes, fs,
                SetToSeq({dep_paths'[a] : a \in {b \in Artifacts : dep_paths'[b] # None}}))
    /\ run_stages' = {}
    /\ deps_rebuilds' = [a \in Artifacts |-> -1]
    /\ stages_checked' = {}
    /\ stack' = <<Frame("resolve", cfg.target)>>
    /\ phase' = "planning"
    /\ UNCHANGED <<cfg, nocache, fs, hashes, os_map, ret, err, run, fs0, fsDone,
                   mapLog, execLog, retLog>>

\* ------------------------------------------- Flow._resolve_dependencies
\* _dep_will_differ without the test of the provider (lines 122-124)
_dep_will_differ_alone(dep, paths, consumer) ==
    IF nocache THEN TRUE
    ELSE p_dep_differ(current_hashes, hashes, fs, paths, consumer)

\* lines 115-125
_dep_will_differ(dep, paths, consumer) ==
    IF nocache THEN TRUE
    ELSE IF os_map[dep] # NoStage /\ os_map[dep] \in run_stages THEN TRUE
    ELSE p_dep_differ(current_hashes, hashes, fs, paths, consumer)

\* lines 162-169
will_differ(take, take_paths, st) ==
    IF take_paths = None THEN FALSE
    ELSE IF p_req_exists(fs, take_paths)
    THEN _dep_will_differ(take.name, take_paths, st)
    ELSE TRUE

\* Unmet without the return of line 160
UnmetNever(take, take_paths) == FALSE

\* line 154: a required take that has no Path-Set
Unmet(take, take_paths) == ~Truthy(take_paths) /\ take.spec = "req"

\* OutputMissing without lines 196-198
OutputMissingNever(outs, present) == FALSE

\* OutputMissing that asks for every mapped output to be missing
OutputMissingAll(outs, present) == outs # {} /\ present = {}

\* lines 196-198: some mapped output is not on disk yet
OutputMissing(outs, present) == present # outs

\* lines 131-141: entry of _resolve_dependencies(dep, ...)
ResolveEnter ==
    /\ Running("resolve", "enter")
    /\ deps_rebuilds' = IF deps_rebuilds[Top.dep] = -1
                        THEN [deps_rebuilds EXCEPT ![Top.dep] = 0]
                        ELSE deps_rebuilds
    /\ IF Truthy(dep_paths[Top.dep]) /\ Provider = NoStage
       THEN Return("None")
       ELSE IF Provider = NoStage \/ Provider \in stages_checked
       THEN Return("None")
       ELSE Goto("takes") /\ UNCHANGED <<ret, retLog>>
    /\ UNCHANGED <<cfg, nocache, fs, current_hashes, hashes, os_map, dep_paths,
                   run_stages, stages_checked, phase, err, run, fs0, fsDone, mapLog,
                   execLog>>

\* lines 146-147: the recursive call for the next take
ResolveTakeCall ==
    /\ Running("resolve", "takes")
    /\ ~TakesDone(Top, Provider)
    /\ stack' = Append([stack EXCEPT ![Len(stack)].pc = "aftertake"],
                       Frame("resolve", Takes(Provider)[Top.i].name))
    /\ UNCHANGED <<cfg, nocache, fs, current_hashes, hashes, os_map, dep_paths,
                   run_stages, deps_rebuilds, stages_checked, ret, phase, err,
                   run, fs0, fsDone, mapLog, execLog, retLog>>

\* lines 150-180: the rest of the loop body, after the recursive call
ResolveTakeCheck ==
    /\ Running("resolve", "aftertake")
    /\ LET st == Provider
           take == Takes(st)[Top.i]
           take_paths == dep_paths[take.name]
       IN IF Unmet(take, take_paths)
          THEN /\ Return("None")
               /\ UNCHANGED <<run_stages, deps_rebuilds>>
          ELSE /\ stack' = [stack EXCEPT ![Len(stack)].pc = "takes",
                                         ![Len(stack)].i = @ + 1]
               /\ IF will_differ(take, take_paths, st)
                  THEN /\ run_stages' = run_stages \cup {st}
                       /\ deps_rebuilds' =
                            [deps_rebuilds EXCEPT ![take.name] = @ + 1]
                  ELSE UNCHANGED <<run_stages, deps_rebuilds>>
               /\ UNCHANGED <<ret, retLog>>
    /\ UNCHANGED <<cfg, nocache, fs, current_hashes, hashes, os_map, dep_paths,
                   stages_checked, phase, err, run, fs0, fsDone, mapLog, execLog>>

\* module_map: the outputs the dry-run mapping of a stage answers
module_map(c, st) == ProdNames(c, st) \ c.omits

\* MustBeMapped that lets no output be omitted
MustBeMappedAll(c, o) == TRUE

\* line 204: a declared output that the mapping must contain
MustBeMapped(c, o) ==
    o.spec = "req" \/ (o.spec = "demand" /\ o.name \in c.overrides)

RECURSIVE VerifyOutputs(_, _, _, _)
\* lines 201-209, from the k-th declared output on: the index after the
\* removals, and the first output whose omission is fatal.  flow.py imports
\* no fatal (line 24), so the call on line 205 ends in a NameError.
VerifyOutputs(c, st, m, k) ==
    IF k > Len(c.stages[st].produces) THEN [fatal |-> "", map |-> m]
    ELSE LET o == c.stages[st].produces[k] IN
         IF o.name \in module_map(c, st) THEN VerifyOutputs(c, st, m, k + 1)
         ELSE IF MustBeMapped(c, o) THEN [fatal |-> o.name, map |-> m]
         ELSE VerifyOutputs(c, st, [m EXCEPT ![o.name] = NoStage], k + 1)

\* lines 182-214: after the loop over the takes
ResolveMap ==
    /\ Running("resolve", "takes")
    /\ TakesDone(Top, Provider)
    /\ LET st == Provider
           outs == module_map(cfg, st)
           present == {o \in outs : p_req_exists(fs, PathSetOf(cfg, o))}
           v == VerifyOutputs(cfg, st, os_map, 1)
       IN /\ mapLog' = Append(mapLog, st)
          /\ current_hashes' =
               IF nocache THEN current_hashes
               ELSE CacheEach(current_hashes, fs,
                      SetToSeq({PathSetOf(cfg, o) : o \in present}))
          /\ stages_checked' = stages_checked \cup {st}
          /\ dep_paths' = [a \in Artifacts |->
                             IF a \in outs THEN PathSetOf(cfg, a) ELSE dep_paths[a]]
          /\ run_stages' = IF OutputMissing(outs, present) THEN run_stages \cup {st}
                           ELSE run_stages
          /\ os_map' = v.map
          /\ IF v.fatal # ""
             THEN /\ phase' = "error"
                  /\ err' = Raise("NameError", v.fatal, st)
                  /\ UNCHANGED <<stack, ret, retLog>>
             ELSE /\ Return("None")
                  /\ UNCHANGED <<phase, err>>
    /\ UNCHANGED <<cfg, nocache, fs, hashes, deps_rebuilds, run, fs0, fsDone, execLog>>

\* line 84 returned: the Flow object is constructed
Constructed ==
    /\ phase = "planning"
    /\ stack = <<>>
    /\ phase' = "planned"
    /\ UNCHANGED <<cfg, nocache, fs, current_hashes, hashes, os_map, dep_paths,
                   run_stages, deps_rebuilds, stages_checked, stack, ret, err,
                   run, fs0, fsDone, mapLog, execLog, retLog>>

\* ----------------------------------------------------- Flow._build_dep
\* any_dep_differ that starts False without a cache too
any_dep_differ_cached == FALSE

\* line 254: the initial value of any_dep_differ
any_dep_differ == nocache

\* lines 241-254: entry of _build_dep(dep)
BuildEnter ==
    /\ Running("build", "enter")
    /\ LET paths == dep_paths[Top.dep]
           runit == Provider # NoStage /\ Provider \in run_stages
       IN IF ~Truthy(paths)
          THEN Return("False") /\ UNCHANGED <<phase, err>>
          ELSE IF p_req_exists(fs, paths) /\ ~runit
          THEN Return("True") /\ UNCHANGED <<phase, err>>
          ELSE IF Provider = NoStage
          THEN /\ phase' = "error"
               /\ err' = Raise("AssertionError", Top.dep, "")
               /\ UNCHANGED <<stack, ret, retLog>>
          ELSE /\ stack' = [stack EXCEPT ![Len(stack)].pc = "takes",
                                         ![Len(stack)].any = any_dep_differ]
               /\ UNCHANGED <<phase, err, ret, retLog>>
    /\ UNCHANGED <<cfg, nocache, fs, current_hashes, hashes, os_map, dep_paths,
                   run_stages, deps_rebuilds, stages_checked, run, fs0, fsDone,
                   mapLog, execLog>>

\* lines 255-256: the recursive call for the next take
BuildTakeCall ==
    /\ Running("build", "takes")
    /\ ~TakesDone(Top, Provider)
    /\ stack' = Append([stack EXCEPT ![Len(stack)].pc = "aftertake"],
                       Frame("build", Takes(Provider)[Top.i].name))
    /\ UNCHANGED <<cfg, nocache, fs, current_hashes, hashes, os_map, dep_paths,
                   run_stages, deps_rebuilds, stages_checked, ret, phase, err,
                   run, fs0, fsDone, mapLog, execLog, retLog>>

\* TakeAsserted with the assert of line 257 left out
TakeAssertedNever(p_dep) == FALSE

\* line 257: the assert fails for a take that is required
TakeAsserted(p_dep) == p_dep.spec = "req"

\* lines 256-260: the rest of the loop body, after the recursive call
BuildTakeRet ==
    /\ Running("build", "aftertake")
    /\ LET st == Provider
           p_dep == Takes(st)[Top.i]
           next == [stack EXCEPT ![Len(stack)].pc = "takes",
                                 ![Len(stack)].i = @ + 1,
                                 ![Len(stack)].unchanged =
                                    IF ret = "True"
                                    THEN @ /\ AsRecorded(fs, hashes,
                                                dep_paths[p_dep.name], st)
                                    ELSE @]
           u == p_update_dep_statuses(current_hashes, hashes, fs,
                                      dep_paths[p_dep.name], st)
       IN IF ret # "True"
          THEN IF TakeAsserted(p_dep)
               THEN /\ phase' = "error"
                    /\ err' = Raise("AssertionError", p_dep.name, st)
                    /\ UNCHANGED <<stack, hashes>>
               ELSE /\ stack' = next
                    /\ UNCHANGED <<phase, err, hashes>>
          ELSE IF nocache
          THEN /\ stack' = next
               /\ UNCHANGED <<phase, err, hashes>>
          ELSE IF u.raised
          THEN /\ phase' = "error"
               /\ err' = Raise("NameError", p_dep.name, st)
               /\ UNCHANGED <<stack, hashes>>
          ELSE /\ stack' = [next EXCEPT ![Len(stack)].any = @ \/ u.differs]
               /\ hashes' = u.hashes
               /\ UNCHANGED <<phase, err>>
    /\ UNCHANGED <<cfg, nocache, fs, current_hashes, os_map, dep_paths,
                   run_stages, deps_rebuilds, stages_checked, ret, run, fs0, fsDone,
                   mapLog, execLog, retLog>>

\* SkipRebuild with the short-circuit left out
SkipNever(f) == FALSE

\* line 268: the stage is skipped although it was entered
SkipRebuild(f) == ~f.any /\ p_req_exists(fs, dep_paths[f.dep])

\* lines 268-275: all takes remained the same
BuildSkip ==
    /\ Running("build", "takes")
    /\ TakesDone(Top, Provider)
    /\ SkipRebuild(Top)
    /\ Return("True")
    /\ UNCHANGED <<cfg, nocache, fs, current_hashes, hashes, os_map, dep_paths,
                   run_stages, deps_rebuilds, stages_checked, phase, err, run,
                   fs0, fsDone, mapLog, execLog>>

\* the files a stage's module may write: those of its mapped outputs
OutPaths(c, st) ==
    UNION {SeqToSet(Members(PathSetOf(c, o))) : o \in module_map(c, st)}

\* module_exec: each file is written with some content, or left as it is
module_exec(disk, w) ==
    [p \in DOMAIN disk |-> IF p \in DOMAIN w /\ w[p] # 0 THEN w[p] ELSE disk[p]]

\* line 290: the test that guards DependencyNotProducedException
NotProduced(disk, product, paths) ==
    product.spec = "req" /\ ~p_req_exists(disk, paths)

RECURSIVE CheckProducts(_, _, _, _, _)
\* lines 289-294, from the k-th declared output on: the exception raised, if
\* any, and the hashes registered before it
CheckProducts(st, dep, disk, cur, k) ==
    IF k > Len(Produces(st)) THEN [err |-> NoErr, cur |-> cur]
    ELSE LET product == Produces(st)[k]
             paths == dep_paths[dep]
             prod_paths == dep_paths[product.name]
         IN IF NotProduced(disk, product, paths)
            THEN [err |-> Raise("DependencyNotProducedException", dep, st),
                  cur |-> cur]
            ELSE IF prod_paths = None
            THEN [err |-> Raise("KeyError", product.name, st), cur |-> cur]
            ELSE CheckProducts(st, dep, disk,
                    IF p_req_exists(disk, paths) /\ ~nocache
                    THEN _cache_deps(cur, disk, prod_paths) ELSE cur,
                    k + 1)

\* lines 277-296: execute the provider and check what it produced
BuildExec ==
    /\ Running("build", "takes")
    /\ TakesDone(Top, Provider)
    /\ ~SkipRebuild(Top)
    /\ \E w \in [OutPaths(cfg, Provider) -> 0..MaxContent] :
        LET st == Provider
            disk == module_exec(fs, w)
            c == CheckProducts(st, Top.dep, disk, current_hashes, 1)
        IN /\ fs' = disk
           /\ execLog' = Append(execLog, st)
           /\ run_stages' = run_stages \ {st}
           /\ current_hashes' = c.cur
           /\ IF c.err # NoErr
              THEN /\ phase' = "error"
                   /\ err' = c.err
                   /\ UNCHANGED <<stack, ret, retLog>>
              ELSE /\ Return("True")
                   /\ UNCHANGED <<phase, err>>
    /\ UNCHANGED <<cfg, nocache, hashes, os_map, dep_paths, deps_rebuilds,
                   stages_checked, run, fs0, fsDone, mapLog>>

\* --------------------------------------------------------- Flow.execute
\* line 299: call _build_dep(target)
Execute ==
    /\ phase = "planned"
    /\ phase' = "executing"
    /\ stack' = <<Frame("build", cfg.target)>>
    /\ UNCHANGED <<cfg, nocache, fs, current_hashes, hashes, os_map, dep_paths,
                   run_stages, deps_rebuilds, stages_checked, ret, err, run,
                   fs0, fsDone, mapLog, execLog, retLog>>

\* lines 300-303: register the target and record it for "__target"
ExecuteReturn ==
    /\ phase = "executing"
    /\ stack = <<>>
    /\ LET paths == dep_paths[cfg.target]
           cur == _cache_deps(current_hashes, fs, paths)
           u == p_update_dep_statuses(cur, hashes, fs, paths, "__target")
       IN IF paths = None
          THEN /\ phase' = "error"
               /\ err' = Raise("KeyError", cfg.target, "")
               /\ UNCHANGED <<current_hashes, hashes, fsDone>>
          ELSE /\ phase' = "done"
               /\ fsDone' = fs
               /\ IF nocache
                  THEN UNCHANGED <<current_hashes, hashes>>
                  ELSE current_hashes' = cur /\ hashes' = u.hashes
               /\ UNCHANGED err
    /\ UNCHANGED <<cfg, nocache, fs, os_map, dep_paths, run_stages,
                   deps_rebuilds, stages_checked, stack, ret, run, fs0, mapLog,
                   execLog, retLog>>

\* ------------------------------------------------------- between two runs
\* a file on disk is changed or removed after execute() returned
EditFile ==
    /\ phase = "done"
    /\ run < MaxRuns
    /\ fs = fsDone
    /\ \E p \in DOMAIN fs, c \in 0..MaxContent :
        /\ fs[p] # 0
        /\ c # fs[p]
        /\ fs' = [fs EXCEPT ![p] = c]
    /\ UNCHANGED <<cfg, nocache, current_hashes, hashes, os_map, dep_paths,
                   run_stages, deps_rebuilds, stages_checked, stack, ret, phase,
                   err, run, fs0, fsDone, mapLog, execLog, retLog>>

\* a new Flow is made for the same configuration; the disk and the cache stay
NewFlow ==
    /\ phase = "done"
    /\ run < MaxRuns
    /\ run' = run + 1
    /\ phase' = "new"
    /\ os_map' = EmptyOsMap
    /\ dep_paths' = [a \in Artifacts |-> None]
    /\ run_stages' = {}
    /\ deps_rebuilds' = [a \in Artifacts |-> -1]
    /\ stages_checked' = {}
    /\ ret' = "None"
    /\ mapLog' = <<>>
    /\ execLog' = <<>>
    /\ retLog' = <<>>
    /\ fs0' = fs
    /\ UNCHANGED <<cfg, nocache, fs, current_hashes, hashes, stack, err, fsDone>>

Next ==
    \/ Construct
    \/ Seed
    \/ ResolveEnter
    \/ ResolveTakeCall
    \/ ResolveTakeCheck
    \/ ResolveMap
    \/ Constructed
    \/ Execute
    \/ BuildEnter
    \/ BuildTakeCall
    \/ BuildTakeRet
    \/ BuildSkip
    \/ BuildExec
    \/ ExecuteReturn
    \/ EditFile
    \/ NewFlow

Spec == Init /\ [][Next]_vars

\* the flows A: s -> x, B: x -> y alone, with x or s a single path or a list
InitChain == Init /\ cfg.name = "chain"
SpecChain == InitChain /\ [][Next]_vars

\* =================================================================== claims
InLog(log, st) == \E k \in 1..Len(log) : log[k] = st

\* C1: a second Flow built and executed for the same target, with caching on,
\* after a first execute() that returned and with no file changed since, has
\* an empty run_stages when planning ends and executes no module.
C1_Idempotence ==
    (run >= 2 /\ ~nocache /\ fs0 = fsDone) =>
        /\ (phase = "planned" => run_stages = {})
        /\ execLog = <<>>

\* C2: with caching on, a stage that was entered in the execution pass although
\* its artifact is on disk, after a provider of one of its takes was executed,
\* is not executed when every take came back as its baseline records it.
C2_ShortCircuit ==
    [][(/\ Running("build", "takes")
        /\ TakesDone(Top, Provider)
        /\ ~nocache
        /\ Top.unchanged
        /\ p_req_exists(fs, dep_paths[Top.dep])
        /\ \E k \in 1..Len(Takes(Provider)) :
              /\ os_map[Takes(Provider)[k].name] # NoStage
              /\ InLog(execLog, os_map[Takes(Provider)[k].name]))
       => (execLog' = execLog /\ ret' = "True" /\ phase' = phase)]_vars

C2_Witness ==
    /\ cfg.name = "chain"
    /\ ~nocache
    /\ Running("build", "takes")
    /\ Top.dep = "y"
    /\ TakesDone(Top, Provider)
    /\ Top.unchanged
    /\ p_req_exists(fs, dep_paths["y"])
    /\ execLog = <<"A">>
    /\ run_stages = {"B"}

\* C3: when the status of a take that is a list of paths is updated, the answer
\* is "differs" exactly when some member differs for the consumer, as
\* p_dep_differ says just before the call, and every member gets its baseline.
C3_UniformUpdate ==
    (/\ Running("build", "aftertake")
     /\ ret = "True"
     /\ ~nocache
     /\ dep_paths[Takes(Provider)[Top.i].name].t = "list")
    => LET paths == dep_paths[Takes(Provider)[Top.i].name]
           u == p_update_dep_statuses(current_hashes, hashes, fs, paths, Provider)
       IN /\ ~u.raised
          /\ u.differs = p_dep_differ(current_hashes, hashes, fs, paths, Provider)
          /\ \A k \in 1..Len(Members(paths)) :
                u.hashes[<<Members(paths)[k], Provider>>]
                    = current_hashes[Members(paths)[k]]

\* C4: a stage's module_map and module_exec are called only when the recursive
\* call for each of its takes has returned into the frame; a stage that
\* provides a take of an executed stage and is executed itself, is executed
\* before it.
C4_InputsBeforeConsumer ==
    /\ [][(Len(mapLog') > Len(mapLog) \/ Len(execLog') > Len(execLog))
            => Top.back = Len(Takes(Provider))]_vars
    /\ [](\A j \in 1..Len(execLog) :
            \A k \in 1..Len(Takes(execLog[j])) :
                LET p == os_map[Takes(execLog[j])[k].name]
                IN (p # NoStage /\ InLog(execLog, p))
                    => \E i \in 1..(j - 1) : execLog[i] = p)

C4_Witness ==
    /\ cfg.name = "chain"
    /\ execLog = <<"A", "B">>
    /\ mapLog = <<"A", "B">>

\* two different stages declare the same output
HasDuplicate(c) ==
    \E s1 \in StageNames(c), s2 \in StageNames(c) :
        s1 # s2 /\ ProdNames(c, s1) \cap ProdNames(c, s2) # {}

\* C5: construction raises the duplicate-provider error exactly for the stage
\* sets in which two stages declare one output, and raises it before dep_paths
\* is seeded, before anything is registered with the cache and before any
\* resolution step or dry-run mapping.
C5_DuplicateProvider ==
    /\ phase # "new" => ((err.kind = "DuplicateProvider") <=> HasDuplicate(cfg))
    /\ err.kind = "DuplicateProvider" =>
        /\ phase = "error"
        /\ dep_paths = [a \in Artifacts |-> None]
        /\ current_hashes = [p \in PathsOf(cfg) |-> 0]
        /\ deps_rebuilds = [a \in Artifacts |-> -1]
        /\ stack = <<>>
        /\ mapLog = <<>>
        /\ retLog = <<>>

C5_Witness ==
    /\ err.kind = "DuplicateProvider"
    /\ ~nocache
    /\ "s" \in cfg.overrides
    /\ p_req_exists(fs, PathSetOf(cfg, "s"))

\* stages reachable from the target through takes, by the index m; with
\* resolvedOnly, only through takes that have a Path-Set in dep_paths
RECURSIVE ReachFrom(_, _, _)
ReachFrom(m, S, resolvedOnly) ==
    LET via(st) == {Takes(st)[k].name : k \in 1..Len(Takes(st))}
        more == {m[a] : a \in {t \in UNION {via(st) : st \in S} :
                                  ~resolvedOnly \/ Truthy(dep_paths[t])}}
                \ {NoStage}
    IN IF more \subseteq S THEN S ELSE ReachFrom(m, S \cup more, resolvedOnly)

DeclaredOsMap ==
    BuildOsMap([dup |-> FALSE, map |-> EmptyOsMap], OutputPairs(cfg, cfg.order)).map

ReachDeclared == ReachFrom(DeclaredOsMap, {DeclaredOsMap[cfg.target]} \ {NoStage}, FALSE)
ReachResolved == ReachFrom(os_map, {os_map[cfg.target]} \ {NoStage}, TRUE)

\* no file of any declared output was on disk when the Flow was constructed
Cold ==
    \A st \in StageNames(cfg) : \A a \in ProdNames(cfg, st) :
        \A k \in 1..Len(Members(PathSetOf(cfg, a))) :
            fs0[Members(PathSetOf(cfg, a))[k]] = 0

RequiredTakesResolved(S) ==
    \A st \in S : \A k \in 1..Len(Takes(st)) :
        Takes(st)[k].spec = "req" => Truthy(dep_paths[Takes(st)[k].name])

\* every stage of S is executed, after the stages of S that provide its takes
ExecutedInOrder(S, m) ==
    /\ \A st \in S : InLog(execLog, st)
    /\ \A j \in 1..Len(execLog) : \A k \in 1..Len(Takes(execLog[j])) :
          LET p == m[Takes(execLog[j])[k].name]
          IN (p \in S /\ execLog[j] \in S) => \E i \in 1..(j - 1) : execLog[i] = p

ColdBuild(S, m) ==
    (nocache /\ Cold /\ RequiredTakesResolved(S)) =>
        /\ (phase = "planned" => S \subseteq run_stages)
        /\ (phase = "done" => ExecutedInOrder(S, m))

Unresolvable(a) ==
    /\ \A st \in StageNames(cfg) : a \notin ProdNames(cfg, st)
    /\ ~(a \in cfg.overrides /\ p_req_exists(fs0, PathSetOf(cfg, a)))

\* C7: an artifact without provider and without existing override never gets
\* an entry in dep_paths, and _build_dep on it returns False at once: nothing
\* is raised, no module runs, run_stages and dep_paths stay as they are.
C7_Unresolvable ==
    /\ [](\A a \in Arts(cfg) : Unresolvable(a) => dep_paths[a] = None)
    /\ [][(Running("build", "enter") /\ Unresolvable(Top.dep))
            => /\ stack' = Returned
               /\ ret' = "False"
               /\ phase' = phase
               /\ err' = err
               /\ execLog' = execLog
               /\ run_stages' = run_stages
               /\ dep_paths' = dep_paths
               /\ fs' = fs]_vars

C7_Witness ==
    /\ phase = "executing"
    /\ \E k \in 1..Len(retLog) :
        /\ retLog[k][1] = "build"
        /\ Unresolvable(retLog[k][2])
        /\ retLog[k][3] = "False"

\* the resolution of one of the stage's outputs was entered and has returned
Visited(st) ==
    \E k \in 1..Len(retLog) :
        retLog[k][1] = "resolve" /\ retLog[k][2] \in ProdNames(cfg, st)

\* visited stages with a required take that has no Path-Set
UnmetStages ==
    {st \in StageNames(cfg) :
        /\ Visited(st)
        /\ \E k \in 1..Len(Takes(st)) :
              /\ Takes(st)[k].spec = "req"
              /\ dep_paths[Takes(st)[k].name] = None}

OnlyBy(st) ==
    {a \in ProdNames(cfg, st) :
        \A s2 \in StageNames(cfg) \ {st} : a \notin ProdNames(cfg, s2)}

\* the step of lines 154-160 that gives a provider up
GivesUp ==
    /\ Running("resolve", "aftertake")
    /\ Takes(Provider)[Top.i].spec = "req"
    /\ dep_paths[Takes(Provider)[Top.i].name] = None

MayBeOmitted(c, o) ==
    o.spec = "opt" \/ (o.spec = "demand" /\ o.name \notin c.overrides)

OmittedBy(st) ==
    {Produces(st)[k].name : k \in {j \in 1..Len(Produces(st)) :
        Produces(st)[j].name \notin module_map(cfg, st)}}

OmitsOnlyOptional(st) ==
    \A k \in 1..Len(Produces(st)) :
        Produces(st)[k].name \in OmittedBy(st) => MayBeOmitted(cfg, Produces(st)[k])

\* artifacts that a stage already dry-run declared and left out of its mapping
Dropped ==
    UNION {OmittedBy(st) : st \in {t \in StageNames(cfg) :
                                    InLog(mapLog, t) /\ OmitsOnlyOptional(t)}}

\* C9: a dry-run mapping that omits only optional (or on-demand, not
\* overridden) outputs raises nothing and removes exactly the omitted outputs
\* from the Output-Provider Index; they stay without provider, and a later
\* resolve or build of one of them returns without raising and without
\* running a module.
C9_OmittedOptional ==
    /\ [][(/\ Running("resolve", "takes")
           /\ TakesDone(Top, Provider)
           /\ OmitsOnlyOptional(Provider))
          => /\ phase' = phase
             /\ err' = err
             /\ os_map' = [a \in Artifacts |->
                             IF a \in OmittedBy(Provider) THEN NoStage ELSE os_map[a]]]_vars
    /\ [](\A a \in Dropped : phase # "new" => os_map[a] = NoStage)
    /\ [][(/\ phase \in {"planning", "executing"}
           /\ stack # <<>>
           /\ Top.pc = "enter"
           /\ Top.dep \in Dropped)
          => /\ stack' = Returned
             /\ phase' = phase
             /\ err' = err
             /\ mapLog' = mapLog
             /\ execLog' = execLog]_vars

C9_Witness ==
    /\ cfg.name = "opt"
    /\ "z" \in Dropped
    /\ os_map["z"] = NoStage
    /\ os_map["v"] = "C"
    /\ \E k \in 1..Len(retLog) : retLog[k] = <<"resolve", "z", "None">>
    /\ \E k \in 1..Len(retLog) : retLog[k] = <<"build", "z", "False">>

\* the required outputs of a stage whose Path-Set is not on disk
MissingRequired(st, disk) ==
    {Produces(st)[k].name : k \in {j \in 1..Len(Produces(st)) :
        /\ Produces(st)[j].spec = "req"
        /\ dep_paths[Produces(st)[j].name] # None
        /\ ~p_req_exists(disk, dep_paths[Produces(st)[j].name])}}

\* C10: when a module has been executed, DependencyNotProducedException is
\* raised for a required output of the stage that is not on disk, naming it
\* and the stage, and is not raised when every required output is on disk.
C10_PromisedOutputs ==
    [][Len(execLog') > Len(execLog) =>
        LET st == Provider
            missing == MissingRequired(st, fs')
            raised == err'.kind = "DependencyNotProducedException"
        IN /\ missing # {} => (raised /\ err'.stage = st /\ err'.dep \in missing)
           /\ missing = {} => ~raised]_vars

\* the override of the artifact is on disk
OverrideExists(a, disk) ==
    /\ a \in cfg.overrides
    /\ \A k \in 1..Len(Members(PathSetOf(cfg, a))) : disk[Members(PathSetOf(cfg, a))[k]] # 0

\* the step of lines 70-84 that seeds dep_paths
Seeding == phase = "indexed" /\ phase' = "planning"

BuildReturnsTrue ==
    /\ Running("build", Top.pc)
    /\ Len(retLog') > Len(retLog)
    /\ ret' = "True"

\* C12: whenever _build_dep(artifact) returns True, by the up-to-date path,
\* the short-circuit or after executing the provider, the artifact's Path-Set
\* is on disk at that moment; when execute() has returned without raising,
\* the target's Path-Set is on disk.
C12_BuildAvailable ==
    /\ [][BuildReturnsTrue => p_req_exists(fs', dep_paths[Top.dep])]_vars
    /\ [][(phase = "executing" /\ phase' = "done")
            => p_req_exists(fs', dep_paths[cfg.target])]_vars

\* the declared outputs whose omission from the dry-run mapping the claim
\* calls fatal: required, or on-demand with an external override
FatalOmissions(st) ==
    {Produces(st)[k].name : k \in {j \in 1..Len(Produces(st)) :
        /\ Produces(st)[j].name \in OmittedBy(st)
        /\ ~MayBeOmitted(cfg, Produces(st)[j])}}

\* C13: when the dry-run mapping of the stage being resolved omits a required
\* output, or an on-demand output that has an override, planning aborts with
\* the fatal error, which names the stage and such an output, and no module
\* is executed afterwards.
C13_DryRunValidation ==
    /\ [][(/\ Running("resolve", "takes")
           /\ TakesDone(Top, Provider)
           /\ FatalOmissions(Provider) # {})
          => /\ phase' = "error"
             /\ err'.kind = "fatal"
             /\ err'.stage = Provider
             /\ err'.dep \in FatalOmissions(Provider)]_vars
    /\ [][phase = "error" => execLog' = execLog]_vars

\* the takes loop of the frame on top is over: the next step skips or executes
AfterTakes == Running("build", "takes") /\ TakesDone(Top, Provider)

\* C14: without a cache, a call of _build_dep that got past the up-to-date
\* check keeps any_dep_differ true through its loop, a take that is not a
\* failed required one lets it go on, and when the loop is over the provider's
\* module is executed: the call never returns by the skip of line 268.
C14_NoShortCircuit ==
    /\ [](nocache =>
            \A k \in 1..Len(stack) :
                (stack[k].fn = "build" /\ stack[k].pc # "enter") => stack[k].any)
    /\ [][(/\ nocache
           /\ Running("build", "aftertake")
           /\ ~(ret # "True" /\ Takes(Provider)[Top.i].spec = "req"))
          => (phase' = phase /\ Top'.pc = "takes" /\ Top'.i = Top.i + 1)]_vars
    /\ [][(nocache /\ AfterTakes)
          => execLog' = Append(execLog, Provider)]_vars

C14_Witness ==
    /\ nocache
    /\ AfterTakes
    /\ Len(Takes(Provider)) > 0
    /\ Provider \in run_stages
    /\ p_req_exists(fs, dep_paths[Top.dep])
    /\ execLog # <<>>

\* some file of a Path-Set the stage's dry-run mapping answered is not on disk
HasMissingOutput(st, disk) ==
    \E o \in module_map(cfg, st) :
        \E k \in 1..Len(Members(PathSetOf(cfg, o))) :
            disk[Members(PathSetOf(cfg, o))[k]] = 0

\* C15: from its dry-run mapping on and when planning ends, a resolved stage
\* with a mapped output that is not on disk is in run_stages, with or without
\* a cache and whatever the cache says about its takes.
C15_MissingOutputs ==
    phase \in {"planning", "planned"} =>
        \A st \in StageNames(cfg) :
            (InLog(mapLog, st) /\ HasMissingOutput(st, fs)) => st \in run_stages

C15_Witness ==
    /\ cfg.name = "chain"
    /\ cfg.lists = {}
    /\ ~nocache
    /\ run = 2
    /\ phase = "planned"
    /\ mapLog = <<"A", "B">>
    /\ HasMissingOutput("B", fs)
    /\ deps_rebuilds["x"] = 0
    /\ run_stages = {"B"}

\* how many calls of _resolve_dependencies(a, ...) have returned
RECURSIVE ResolveCalls(_, _)
ResolveCalls(log, a) ==
    IF log = <<>> THEN 0
    ELSE (IF Head(log)[1] = "resolve" /\ Head(log)[2] = a THEN 1 ELSE 0)
         + ResolveCalls(Tail(log), a)

\* the stages that take the artifact
ConsumersOf(a) == {st \in StageNames(cfg) : a \in TakeNames(cfg, st)}

\* C16: during one planning pass every stage processes its takes at most
\* once: an artifact is resolved at most once for each stage that takes it
\* (and once more when it is the target), and its deps_rebuilds counter is at
\* most the number of stages that take it.
C16_ResolutionMemo ==
    \A a \in Arts(cfg) :
        /\ ResolveCalls(retLog, a)
             <= Cardinality(ConsumersOf(a)) + (IF a = cfg.target THEN 1 ELSE 0)
        /\ deps_rebuilds[a] <= Cardinality(ConsumersOf(a))

\* the recursive _build_dep call for the take at hand came back with failure
TakeBuildFailed == Running("build", "aftertake") /\ ret # "True"

\* C17: in the execution pass, a required take whose build returned failure
\* aborts the build with an error, and the stage is not executed then or
\* before; an optional take whose build returned failure lets the loop go on
\* to the next take with no status update in the cache and with
\* any_dep_differ as it was.
C17_TakeFailure ==
    /\ [][(TakeBuildFailed /\ Takes(Provider)[Top.i].spec = "req")
          => /\ phase' = "error"
             /\ err'.kind = "AssertionError"
             /\ err'.stage = Provider
             /\ ~InLog(execLog', Provider)]_vars
    /\ [][(TakeBuildFailed /\ Takes(Provider)[Top.i].spec # "req")
          => /\ phase' = phase
             /\ err' = err
             /\ hashes' = hashes
             /\ current_hashes' = current_hashes
             /\ Len(stack') = Len(stack)
             /\ Top'.pc = "takes"
             /\ Top'.i = Top.i + 1
             /\ Top'.any = Top.any]_vars
    /\ [][phase = "error" => execLog' = execLog]_vars

C17_Witness ==
    /\ ~nocache
    /\ phase = "done"
    /\ \E j \in 1..Len(execLog) :
         \E k \in 1..Len(Takes(execLog[j])) :
            /\ Takes(execLog[j])[k].spec = "opt"
            /\ \E n \in 1..Len(retLog) :
                 retLog[n] = <<"build", Takes(execLog[j])[k].name, "False">>

\* C18: during one execute() no stage's module is executed twice, and the
\* stage whose module was executed is not in run_stages afterwards.
C18_AtMostOnce ==
    /\ [](\A j \in 1..Len(execLog) : \A k \in 1..Len(execLog) :
            j # k => execLog[j] # execLog[k])
    /\ [][Len(execLog') > Len(execLog) => Provider \notin run_stages']_vars

\* C19: when planning ends, a resolved stage is in run_stages whenever the
\* provider of one of its takes that has a Path-Set in dep_paths is in
\* run_stages, with or without a cache.
C19_RebuildCascade ==
    phase = "planned" =>
        \A st \in StageNames(cfg) :
            InLog(mapLog, st) =>
                \A k \in 1..Len(Takes(st)) :
                    LET t == Takes(st)[k].name
                    IN (/\ Truthy(dep_paths[t])
                        /\ os_map[t] # NoStage
                        /\ os_map[t] \in run_stages) => st \in run_stages

C19_Witness ==
    /\ cfg.name = "chain"
    /\ cfg.lists = {}
    /\ ~nocache
    /\ run = 2
    /\ phase = "planned"
    /\ \A p \in DOMAIN fs : fs[p] # 0
    /\ ~p_dep_differ(current_hashes, hashes, fs, dep_paths["x"], "B")
    /\ run_stages = {"A", "B"}

\* C20: executing a stage whose dry-run mapping left out some output, all of
\* them optional or on-demand without override, to build one of its other
\* outputs returns True and raises nothing when every required output of the
\* stage is on disk afterwards.
C20_ToleratesOmitted ==
    [][(/\ Len(execLog') > Len(execLog)
        /\ OmittedBy(Provider) # {}
        /\ OmitsOnlyOptional(Provider)
        /\ Top.dep \notin OmittedBy(Provider)
        /\ MissingRequired(Provider, fs') = {})
       => (phase' = phase /\ err' = err /\ ret' = "True")]_vars

====
